---- MODULE Spec2Model ----
(***************************************************************************)
(* Model of the MongoDB driver (dbaas/drivers/mongodb.py) and of the       *)
(* metadata cutover workflow step (update_dbaas_metadata.py).              *)
(*                                                                         *)
(* Python values are modelled as follows: None is the string PyNone, an    *)
(* exception is a record [cls, code], a dict answered by the engine is a   *)
(* record [type, keys, ok, set] whose keys field says which keys it holds, *)
(* and a formatted string is the sequence of the pieces it is built from.  *)
(***************************************************************************)
EXTENDS Integers, Sequences, FiniteSets, TLC

VARIABLES
    databaseinfra,   \* the driver's infra: pk, credentials, instances
    engineReplSet,   \* replica-set name configured in the engine, PyNone if none
    cache,           \* django cache: function from the keys present to their values
    last,            \* the driver operation in progress: its outcome, Idle between calls
    previous,        \* the get_replica_name call before, if no eviction came since
    hostAttrs,       \* HostAttr table: sequence of rows, a row's pk is its index
    workflow_dict,   \* the execution context handed to the step
    stepLast,        \* outcome of the latest do / undo of the step
    databases,       \* the names of the infra's Database rows, in query order
    engineUsers,     \* the engine's users: per database, the user stored or NoUser
    workers,         \* concurrent get_replica_name calls: position and locals of each
    run              \* a workflow run: position, calls made, the context's errors

driverVars == <<databaseinfra, engineReplSet, cache, last, previous>>
stepVars == <<hostAttrs, workflow_dict, stepLast>>
manageVars == <<databases, engineUsers>>
otherVars == <<hostAttrs, workflow_dict, stepLast, databases, engineUsers, workers, run>>
vars == <<databaseinfra, engineReplSet, cache, last, previous,
          hostAttrs, workflow_dict, stepLast, databases, engineUsers, workers, run>>

(***************************************************************************)
(* Bounds of the model.                                                    *)
(***************************************************************************)
MaxInstances == 2
MaxInitRows == 3
MaxRows == 5
MaxErrors == 2
MaxWorkers == 2
MaxSteps == 5

(***************************************************************************)
(* Python values.                                                          *)
(***************************************************************************)
PyNone == "<None>"

\* bool(v) of a string-or-None value
Truthy(v) == v \notin {PyNone, ""}

Exc(cls, code) == [cls |-> cls, code |-> code]
NoExc == Exc("<none>", 0)

\* the classes an exception class derives from (itself included)
Bases(cls) ==
    CASE cls = "OperationFailure" -> {"OperationFailure", "PyMongoError", "Exception"}
      [] cls = "ConnectionFailure" -> {"ConnectionFailure", "PyMongoError", "Exception"}
      [] cls = "PyMongoError" -> {"PyMongoError", "Exception"}
      [] cls = "<none>" -> {}
      [] OTHER -> {cls, "Exception"}

\* `except cls:` matches e
IsInstance(e, cls) == cls \in Bases(e.cls)

Raised(e) == e # NoExc

\* let x = v in F(x), with v evaluated once
Bind(v, F(_)) == CHOOSE y \in {F(x) : x \in {v}} : TRUE

\* fmt % arg for a format string holding nSpecs conversion specifiers, with
\* nArgs arguments: Python raises TypeError unless the counts agree
PercentFormat(nSpecs, nArgs) ==
    IF nSpecs = nArgs THEN NoExc ELSE Exc("TypeError", 0)

(***************************************************************************)
(* Engine answers.                                                         *)
(***************************************************************************)
PyDict(keys, ok, set) == [type |-> "dict", keys |-> keys, ok |-> ok, set |-> set]
NotADict == [type |-> "NoneType", keys |-> {}, ok |-> 0, set |-> PyNone]

Outcome(exc, reply) == [exc |-> exc, reply |-> reply]

\* the engine's error code for bad credentials
AUTH_FAILED == 18
\* pymongo.MongoClient(address, connectTimeoutMS=...)
ConstructOutcomes ==
    {NoExc, Exc("TypeError", 0), Exc("ConnectionFailure", 0)}

\* client.admin.authenticate(user, password)
AuthOutcomes ==
    {NoExc, Exc("OperationFailure", AUTH_FAILED), Exc("OperationFailure", 13),
     Exc("ConnectionFailure", 0)}

\* client.disconnect()
DisconnectOutcomes == {NoExc, Exc("ConnectionFailure", 0)}

\* client.admin.command('replSetGetStatus'): the engine names its set, or
\* fails the command when it runs without one; the link may break
ReplStatusOutcomes(replSet) ==
    {Outcome(Exc("ConnectionFailure", 0), NotADict)}
    \cup (IF replSet = PyNone
          THEN {Outcome(Exc("OperationFailure", 76), NotADict)}
          ELSE {Outcome(NoExc, PyDict({"ok", "set"}, 1, replSet))})

\* client.admin.command('ping')
PingOutcomes ==
    {Outcome(NoExc, PyDict({"ok"}, 1, PyNone)),
     Outcome(NoExc, PyDict({"ok"}, 0, PyNone)),
     Outcome(NoExc, PyDict({}, 0, PyNone)),
     Outcome(NoExc, NotADict),
     Outcome(Exc("OperationFailure", AUTH_FAILED), NotADict),
     Outcome(Exc("OperationFailure", 13), NotADict),
     Outcome(Exc("ConnectionFailure", 0), NotADict)}

\* mongo_database.collection_names()
CollectionNamesOutcomes ==
    {Outcome(NoExc, NotADict),
     Outcome(Exc("OperationFailure", AUTH_FAILED), NotADict),
     Outcome(Exc("OperationFailure", 13), NotADict),
     Outcome(Exc("ConnectionFailure", 0), NotADict)}

\* d.get(key, default) on an engine answer
DictGet(d, key, default) ==
    IF key \notin d.keys THEN default
    ELSE IF key = "ok" THEN d.ok ELSE d.set

(***************************************************************************)
(* The infra and its instances.                                            *)
(***************************************************************************)
default_port == 27017

NoInstance == 0
InstanceIds == 1..MaxInstances

Address(i) == "h" \o ToString(i)

Instances ==
    [InstanceIds -> [is_arbiter : BOOLEAN, is_active : BOOLEAN]]

\* pk 0 stands for an infra that is not persisted (pk is None)
Infras ==
    [pk : {0, 1}, credentials : BOOLEAN, instances : Instances]

\* "%s:%s" % (instance.address, instance.port)
HostPort(i) == Address(i) \o ":" \o ToString(default_port)

\* the instances, in pk order from i on, whose flags are in `keep`
RECURSIVE FilterFrom(_, _, _)
FilterFrom(instances, keep, i) ==
    IF i > MaxInstances THEN <<>>
    ELSE (IF instances[i] \in keep THEN <<i>> ELSE <<>>)
         \o FilterFrom(instances, keep, i + 1)

\* instances.filter(is_arbiter=False, is_active=True).all()
FilterInstances(instances) ==
    FilterFrom(instances, {[is_arbiter |-> FALSE, is_active |-> TRUE]}, 1)

\* ",".join(items)
RECURSIVE Join(_)
Join(items) ==
    IF Len(items) = 0 THEN <<>>
    ELSE IF Len(items) = 1 THEN <<items[1]>>
    ELSE <<items[1], ",">> \o Join(Tail(items))

\* as concatenate_instances, with the filter on is_active forgotten
ConcatenateNonArbiters(infra) ==
    LET chosen == FilterFrom(infra.instances,
                             [is_arbiter : {FALSE}, is_active : BOOLEAN], 1)
    IN  Join([k \in 1..Len(chosen) |-> HostPort(chosen[k])])

concatenate_instances(infra) ==
    LET chosen == FilterInstances(infra.instances)
    IN  Join([k \in 1..Len(chosen) |-> HostPort(chosen[k])])

get_admin_connection(infra, instance) ==
    IF instance # NoInstance
    THEN <<"mongodb://", HostPort(instance)>>
    ELSE <<"mongodb://">> \o concatenate_instances(infra)

(***************************************************************************)
(* The connection resource manager.                                        *)
(*                                                                         *)
(* The connect timeout read from the configuration bounds how long the     *)
(* construction of the client may take; it decides none of the outcomes    *)
(* below and is left out.                                                  *)
(***************************************************************************)
NoClient ==
    [created |-> FALSE, connected |-> FALSE, authenticated |-> FALSE,
     address |-> <<>>]

\* raise cls(fmt % args): the error raised is the one of the formatting when
\* the formatting fails
RaiseFormatted(cls, nSpecs, nArgs) ==
    IF Raised(PercentFormat(nSpecs, nArgs))
    THEN PercentFormat(nSpecs, nArgs)
    ELSE Exc(cls, 0)

\* env: the outcomes of the engine-client calls of one operation,
\* [construct, auth, cmd, disconnect]; a call that is not reached has the
\* outcome Unasked
Unasked == Outcome(NoExc, NotADict)

Envs(cmdOutcomes, credentials) ==
    [construct : ConstructOutcomes \ {NoExc}, auth : {NoExc},
     cmd : {Unasked}, disconnect : {NoExc}]
    \cup [construct : {NoExc},
          auth : IF credentials THEN AuthOutcomes \ {NoExc} ELSE {},
          cmd : {Unasked}, disconnect : {NoExc}]
    \cup [construct : {NoExc}, auth : {NoExc},
          cmd : cmdOutcomes, disconnect : DisconnectOutcomes]

\* the try block of __mongo_client__: the error raised in it, if any
ClientTry(credentials, env) ==
    IF Raised(env.construct) THEN env.construct
    ELSE IF credentials THEN env.auth
    ELSE NoExc

\* MongoDB.__mongo_client__(instance): the error it raises, and the client
\* pymongo.MongoClient built on the way
mongo_client(infra, instance, env) ==
    [exc |-> IF IsInstance(ClientTry(infra.credentials, env), "TypeError")
             THEN RaiseFormatted("AuthenticationError", 0, 1)
             ELSE ClientTry(infra.credentials, env),
     client |-> IF Raised(env.construct) THEN NoClient
                ELSE [created |-> TRUE, connected |-> TRUE,
                      authenticated |-> infra.credentials /\ ~Raised(env.auth),
                      address |-> get_admin_connection(infra, instance)]]

\* as Translate, with the error code of an OperationFailure not looked at
TranslateWithoutCode(e) ==
    IF IsInstance(e, "PyMongoError")
    THEN RaiseFormatted("ConnectionError", 3, 3)
    ELSE e

\* the except clauses of pymongo(): what leaves them when e arrives
Translate(e) ==
    IF IsInstance(e, "OperationFailure")
    THEN IF e.code = AUTH_FAILED
         THEN RaiseFormatted("AuthenticationError", 2, 2)
         ELSE RaiseFormatted("ConnectionError", 3, 3)
    ELSE IF IsInstance(e, "PyMongoError")
    THEN RaiseFormatted("ConnectionError", 3, 3)
    ELSE e

\* `except:` without a class catches whatever is raised
BareExcept(e) == NoExc

\* as Release, with the disconnect outside any try block
ReleaseUnguarded(bound, disconnect) ==
    IF bound THEN disconnect ELSE NoExc

\* the finally clause of pymongo(): the error that leaves it; `bound` says
\* that the local `client` holds a client, `disconnect` is the outcome of
\* client.disconnect()
Release(bound, disconnect) ==
    IF bound THEN BareExcept(disconnect) ELSE NoExc

\* an error that leaves a finally clause replaces the one that was pending
AfterFinally(pending, fromFinally) ==
    IF Raised(fromFinally) THEN fromFinally ELSE pending

NoScope ==
    [entered |-> FALSE, construct |-> NoExc, yielded |-> FALSE, handle |-> PyNone,
     reached |-> NoExc, pending |-> NoExc,
     out |-> NoExc, released |-> FALSE, releaseFailed |-> FALSE, client |-> NoClient]

\* the rest of pymongo() once __mongo_client__ ended as mc: the local
\* `client` is bound only when __mongo_client__ returned, `reached` is the
\* error that arrives at the except clauses, `pending` the one that leaves
\* them, and `out` the one that leaves the scope after the finally clause
Scope(mc, database, env, bodyExc) ==
    [entered |-> TRUE,
     construct |-> env.construct,
     yielded |-> ~Raised(mc.exc),
     handle |-> IF Raised(mc.exc) THEN PyNone
                ELSE IF database = PyNone THEN "client" ELSE database,
     reached |-> IF Raised(mc.exc) THEN mc.exc ELSE bodyExc,
     pending |-> Translate(IF Raised(mc.exc) THEN mc.exc ELSE bodyExc),
     out |-> AfterFinally(Translate(IF Raised(mc.exc) THEN mc.exc ELSE bodyExc),
                          Release(~Raised(mc.exc), env.disconnect)),
     released |-> ~Raised(mc.exc) /\ ~Raised(env.disconnect),
     releaseFailed |-> ~Raised(mc.exc) /\ Raised(env.disconnect),
     client |-> [mc.client EXCEPT
                    !.connected = @ /\ ~(~Raised(mc.exc) /\ ~Raised(env.disconnect))]]

\* with self.pymongo(instance, database) as handle: body
\* bodyExc is the exception that leaves the body when the body runs
pymongo(infra, instance, database, env, bodyExc) ==
    Bind(mongo_client(infra, instance, env),
         LAMBDA mc : Scope(mc, database, env, bodyExc))

(***************************************************************************)
(* The replica-topology resolver and its cache.                            *)
(***************************************************************************)
EmptyCache == [k \in {} |-> ""]

\* as CacheKey, with the pk left out of the key
CacheKeyWithoutPk(pk) == "mongo.replica"

\* 'mongo.replica.%d' % pk
CacheKey(pk) == "mongo.replica." \o ToString(pk)

\* cache.get(key, default)
CacheGet(c, key, default) == IF key \in DOMAIN c THEN c[key] ELSE default

\* cache.set(key, value)
CacheSet(c, key, value) ==
    [k \in DOMAIN c \cup {key} |-> IF k = key THEN value ELSE c[k]]

\* the body of __get_replica_name: the name found, and the error that leaves
\* the body (an OperationFailure is taken as "without replica")
ReplicaBody(cmd) ==
    [exc |-> IF IsInstance(cmd.exc, "OperationFailure") THEN NoExc ELSE cmd.exc,
     repl_name |-> IF Raised(cmd.exc) THEN PyNone
                   ELSE DictGet(cmd.reply, "set", PyNone)]

LiveResult(scope, repl_name) ==
    [raised |-> scope.out,
     ret |-> IF Raised(scope.out) THEN PyNone ELSE repl_name,
     queries |-> IF scope.yielded THEN 1 ELSE 0,
     scope |-> scope]

\* MongoDB.__get_replica_name: the live query
live_replica_name(infra, env) ==
    Bind(pymongo(infra, NoInstance, PyNone, env, ReplicaBody(env.cmd).exc),
         LAMBDA scope : LiveResult(scope, ReplicaBody(env.cmd).repl_name))

\* the result of get_replica_name, with the cache afterwards and the numbers
\* of cache reads, cache writes, live resolutions and replSetGetStatus
\* commands of the call
Uncached(c, live) ==
    [raised |-> live.raised, ret |-> live.ret, cache |-> c,
     gets |-> 0, sets |-> 0, lives |-> 1, queries |-> live.queries,
     scope |-> live.scope]

Missed(c, key, live) ==
    [raised |-> live.raised, ret |-> live.ret,
     cache |-> IF Raised(live.raised) THEN c
               ELSE CacheSet(c, key, IF Truthy(live.ret) THEN live.ret ELSE ""),
     gets |-> 1, sets |-> IF Raised(live.raised) THEN 0 ELSE 1,
     lives |-> 1, queries |-> live.queries, scope |-> live.scope]

Hit(c, cached) ==
    [raised |-> NoExc, ret |-> cached, cache |-> c, gets |-> 1, sets |-> 0,
     lives |-> 0, queries |-> 0, scope |-> NoScope]

GetReplicaNameAlwaysCached(infra, c, env) ==
    IF ~Truthy(CacheGet(c, CacheKey(infra.pk), PyNone))
    THEN Bind(live_replica_name(infra, env),
              LAMBDA live : Missed(c, CacheKey(infra.pk), live))
    ELSE Hit(c, CacheGet(c, CacheKey(infra.pk), PyNone))

\* MongoDB.get_replica_name on cache c
get_replica_name(infra, c, env) ==
    IF infra.pk = 0
    THEN Bind(live_replica_name(infra, env), LAMBDA live : Uncached(c, live))
    ELSE IF ~Truthy(CacheGet(c, CacheKey(infra.pk), PyNone))
    THEN Bind(live_replica_name(infra, env),
              LAMBDA live : Missed(c, CacheKey(infra.pk), live))
    ELSE Hit(c, CacheGet(c, CacheKey(infra.pk), PyNone))

(***************************************************************************)
(* Driver operations.                                                      *)
(***************************************************************************)
RESERVED_DATABASES_NAME == {"admin", "config", "local"}

\* the names a Database row may be asked to have
CandidateNames == {"app", "web"} \cup RESERVED_DATABASES_NAME

\* the validation of a Database row by the model layer: reserved names are
\* refused
clean(name) == name \notin RESERVED_DATABASES_NAME

\* the names of the Database rows that exist
Databases == {name \in CandidateNames : clean(name)}

\* as Uri, with the replicaSet parameter inside the `if database:` block
UriReplicaSetWithDatabase(hosts, database, repl_name) ==
    <<"mongodb://<user>:<password>@">> \o hosts
    \o (IF database # PyNone
        THEN <<"/", database>>
             \o (IF Truthy(repl_name) THEN <<"?replicaSet=", repl_name>> ELSE <<>>)
        ELSE <<>>)

\* the address get_connection builds around the resolved replica name
Uri(hosts, database, repl_name) ==
    <<"mongodb://<user>:<password>@">> \o hosts
    \o (IF database # PyNone THEN <<"/", database>> ELSE <<>>)
    \o (IF Truthy(repl_name) THEN <<"?replicaSet=", repl_name>> ELSE <<>>)

\* MongoDB.get_connection(database): the address, or the error of the resolver
get_connection(infra, c, database, env) ==
    Bind(get_replica_name(infra, c, env),
         LAMBDA r : [raised |-> r.raised,
                     uri |-> IF Raised(r.raised) THEN <<>>
                             ELSE Uri(concatenate_instances(infra), database, r.ret),
                     resolve |-> r])

OpResult(scope) == [raised |-> scope.out, scope |-> scope]

\* MongoDB.check_status(instance)
check_status(infra, instance, env) ==
    OpResult(pymongo(infra, instance, PyNone, env,
        IF IsInstance(env.cmd.exc, "PyMongoError")
        THEN RaiseFormatted("ConnectionError", 2, 2)
        ELSE IF env.cmd.reply.type = "dict" /\ DictGet(env.cmd.reply, "ok", 0) # 1
        THEN RaiseFormatted("ConnectionError", 1, 1)
        ELSE NoExc))

\* MongoDB.create_database(database): a probe, nothing is created
create_database(infra, database, env) ==
    OpResult(pymongo(infra, NoInstance, database, env, env.cmd.exc))

(***************************************************************************)
(* info(): the engine's answers are dicts, functions from the keys present *)
(* to their values; a number is Num(n) and a null is Null.                 *)
(***************************************************************************)
Num(n) == [null |-> FALSE, n |-> n]
Null == [null |-> TRUE, n |-> 0]

EmptyDict == [k \in {} |-> Null]

\* d.get(key, default)
Get(d, key, default) == IF key \in DOMAIN d THEN d[key] ELSE default

\* `v or 0` for a number or None
OrZero(v) == IF v.null \/ v.n = 0 THEN 0 ELSE v.n

\* the answer to one query: the error it raised, or the dict it returned
Answer(reply) == [exc |-> NoExc, reply |-> reply]
Failure(e) == [exc |-> e, reply |-> EmptyDict]
NotAsked == Answer(EmptyDict)

QueryErrors ==
    {Exc("OperationFailure", AUTH_FAILED), Exc("OperationFailure", 13),
     Exc("ConnectionFailure", 0)}

\* client.server_info()
ServerInfoReplies == {EmptyDict, [version |-> "4.0"]}

\* client.admin.command('listDatabases')
ListDatabasesReplies ==
    {EmptyDict, [totalSize |-> Num(1000)], [totalSize |-> Null]}

\* getattr(client, database_name).command('dbStats'): each metric is absent,
\* null or a number
Metrics == {"dataSize", "indexSize", "fileSize"}

MetricValue(key) ==
    CASE key = "dataSize" -> 100
      [] key = "indexSize" -> 20
      [] OTHER -> 150

DbStatsReplies ==
    UNION {{[key \in present |-> IF key \in nulls THEN Null
                                 ELSE Num(MetricValue(key))] :
                nulls \in SUBSET present} : present \in SUBSET Metrics}

\* the answers to the dbStats of n databases in turn: nothing is asked once
\* a query has failed
StatsRuns(n) ==
    {stats \in [1..n -> {Answer(reply) : reply \in DbStatsReplies}
                      \cup {Failure(e) : e \in QueryErrors}] :
        \A j \in 1..n : \A k \in (j + 1)..n :
            Raised(stats[j].exc) => stats[k] = NotAsked}

NoAnswers(n) ==
    [server_info |-> NotAsked, listDatabases |-> NotAsked,
     dbStats |-> [k \in 1..n |-> NotAsked]]

\* the answers to the queries of one info() over n databases
InfoAnswers(n) ==
    {[NoAnswers(n) EXCEPT !.server_info = Failure(e)] : e \in QueryErrors}
    \cup {[NoAnswers(n) EXCEPT !.server_info = Answer(si),
                               !.listDatabases = Failure(e)] :
            si \in ServerInfoReplies, e \in QueryErrors}
    \cup {[server_info |-> Answer(si), listDatabases |-> Answer(ld),
           dbStats |-> stats] :
            si \in ServerInfoReplies, ld \in ListDatabasesReplies,
            stats \in StatsRuns(n)}

\* the outcomes of the engine-client calls of one info(): the queries are
\* asked only when the client was built and authenticated
InfoEnvs(credentials, n) ==
    UNION {{[construct |-> e.construct, auth |-> e.auth,
             disconnect |-> e.disconnect, cmd |-> answers] :
                answers \in IF Raised(e.construct) \/ Raised(e.auth)
                            THEN {NoAnswers(n)} ELSE InfoAnswers(n)} :
           e \in Envs({Unasked}, credentials)}

\* DatabaseInfraStatus as constructed, and DatabaseStatus filled from a
\* dbStats answer
NoStatus ==
    [version |-> PyNone, used_size_in_bytes |-> Num(0),
     databases_status |-> EmptyDict]

\* as DbStatus, with the index size left out of the used size
DbStatusDataOnly(reply) ==
    [used_size_in_bytes |-> OrZero(Get(reply, "dataSize", Null)),
     total_size_in_bytes |-> OrZero(Get(reply, "fileSize", Null))]

DbStatus(reply) ==
    [used_size_in_bytes |-> OrZero(Get(reply, "dataSize", Null))
                            + OrZero(Get(reply, "indexSize", Null)),
     total_size_in_bytes |-> OrZero(Get(reply, "fileSize", Null))]

\* the number of queries of info() that ran without error before the first
\* that failed
RECURSIVE Answered(_)
Answered(answers) ==
    IF Len(answers) = 0 \/ Raised(answers[1].exc) THEN 0
    ELSE 1 + Answered(Tail(answers))

\* the body of the with block of info(): the error that leaves it, and the
\* status object as the body left it
InfoBody(dbs, cmd) ==
    Bind(<<cmd.server_info, cmd.listDatabases>> \o cmd.dbStats, LAMBDA queries :
    Bind(Answered(queries), LAMBDA done :
        [exc |-> IF done = Len(queries) THEN NoExc ELSE queries[done + 1].exc,
         status |->
            IF done < 2 THEN NoStatus
            ELSE [version |-> Get(cmd.server_info.reply, "version", PyNone),
                  used_size_in_bytes |->
                      Get(cmd.listDatabases.reply, "totalSize", Num(0)),
                  databases_status |->
                      [name \in {dbs[k] : k \in 1..(done - 2)} |->
                          DbStatus(cmd.dbStats[
                              CHOOSE k \in 1..(done - 2) :
                                  /\ dbs[k] = name
                                  /\ \A j \in (k + 1)..(done - 2) :
                                         dbs[j] # name].reply)]]]))

\* what info() hands to its caller once the with block has ended as scope
InfoEnd(scope, body) ==
    [raised |-> scope.out, returned |-> ~Raised(scope.out),
     status |-> IF Raised(scope.out) THEN NoStatus ELSE body.status,
     scope |-> scope]

\* as InfoEnd, with `return databaseinfra_status` in a finally clause
InfoEndReturningAnyway(scope, body) ==
    [raised |-> NoExc, returned |-> TRUE, status |-> body.status, scope |-> scope]

\* as info, with `return databaseinfra_status` in a finally clause
InfoReturningPartial(infra, dbs, env) ==
    Bind(InfoBody(dbs, env.cmd), LAMBDA body :
        InfoEndReturningAnyway(pymongo(infra, NoInstance, PyNone, env, body.exc),
                               body))

\* MongoDB.info()
info(infra, dbs, env) ==
    Bind(InfoBody(dbs, env.cmd), LAMBDA body :
        InfoEnd(pymongo(infra, NoInstance, PyNone, env, body.exc), body))

(***************************************************************************)
(* User and database management. The engine keeps, per database, the user  *)
(* of the credential: its password and roles, or NoUser.                   *)
(***************************************************************************)
DefaultRoles == {"readWrite", "dbAdmin"}
RoleSets == {DefaultRoles, {"read"}}

NoUser == [present |-> FALSE, password |-> "", roles |-> {}]
User(password, roles) == [present |-> TRUE, password |-> password, roles |-> roles]

NoUsers == [database \in Databases |-> NoUser]

Credentials == [user : {"u"}, password : {"p1", "p2"}, database : Databases]
NoCredential == [user |-> "", password |-> "", database |-> PyNone]

\* add_user, remove_user, drop_database: done, or failed with a pymongo error
ManagementOutcomes ==
    {Outcome(NoExc, NotADict)} \cup {Outcome(e, NotADict) : e \in QueryErrors}

\* what an operation asked of the engine, and about which database
Act(name, database) == [act |-> name, database |-> database]

\* mongo_database.add_user(name, password=password, roles=roles) on the
\* engine: the user is created, or its password and roles are replaced
add_user(users, database, password, roles) ==
    [users EXCEPT ![database] = User(password, roles)]

\* mongo_database.remove_user(name) on the engine
drop_user(users, database) ==
    [users EXCEPT ![database] = NoUser]

\* the end of a management operation whose scope ended as scope: the engine's
\* users are `done` when the command was sent and did not fail
Managed(scope, cmd, users, done, act) ==
    [raised |-> scope.out, scope |-> scope,
     users |-> IF scope.yielded /\ ~Raised(cmd.exc) THEN done ELSE users,
     acts |-> IF scope.yielded THEN {act} ELSE {}]

\* as create_user, with the user added through client.admin, as
\* change_default_pwd does
CreateUserInAdmin(infra, users, credential, roles, env) ==
    Bind(pymongo(infra, NoInstance, PyNone, env, env.cmd.exc), LAMBDA scope :
        Managed(scope, env.cmd, users, users, Act("add_user", "admin")))

\* MongoDB.create_user(credential, roles)
create_user(infra, users, credential, roles, env) ==
    Bind(pymongo(infra, NoInstance, credential.database, env, env.cmd.exc),
         LAMBDA scope :
            Managed(scope, env.cmd, users,
                    add_user(users, scope.handle, credential.password, roles),
                    Act("add_user", scope.handle)))

\* as update_user, with a new random password at each call, as
\* change_default_pwd makes one
UpdateUserWithNewPassword(infra, users, credential, env) ==
    create_user(infra, users,
                [credential EXCEPT !.password =
                    IF users[credential.database].password = "p1" THEN "p2" ELSE "p1"],
                DefaultRoles, env)

\* MongoDB.update_user(credential)
update_user(infra, users, credential, env) ==
    create_user(infra, users, credential, DefaultRoles, env)

\* MongoDB.remove_user(credential)
remove_user(infra, users, credential, env) ==
    Bind(pymongo(infra, NoInstance, credential.database, env, env.cmd.exc),
         LAMBDA scope :
            Managed(scope, env.cmd, users, drop_user(users, scope.handle),
                    Act("remove_user", scope.handle)))

\* MongoDB.remove_database(database); usersGo says whether the engine drops
\* the users of a database with it, which depends on the engine's version
remove_database(infra, users, database, usersGo, env) ==
    Bind(pymongo(infra, NoInstance, PyNone, env, env.cmd.exc), LAMBDA scope :
        Managed(scope, env.cmd, users,
                IF usersGo THEN drop_user(users, database) ELSE users,
                Act("drop_database", database)))

(***************************************************************************)
(* The driver as a state machine: one action per operation, the engine's   *)
(* answers drawn from the outcomes above.                                  *)
(***************************************************************************)
Idle ==
    [op |-> "none", instance |-> NoInstance, database |-> PyNone, raised |-> NoExc,
     ret |-> PyNone, uri |-> <<>>, probe |-> Outcome(NoExc, NotADict),
     gets |-> 0, sets |-> 0, lives |-> 0, queries |-> 0, scope |-> NoScope,
     returned |-> FALSE, status |-> NoStatus, answers |-> NoAnswers(0),
     credential |-> NoCredential, roles |-> {}, acts |-> {},
     usersBefore |-> EmptyCache, repeat |-> FALSE, usersAtFirst |-> EmptyCache]

NoResolution == [called |-> FALSE, queries |-> 0, failed |-> FALSE]

Resolution(call) ==
    [called |-> TRUE, queries |-> call.queries, failed |-> Raised(call.raised)]

Resolving(call) == call.op \in {"get_replica_name", "get_connection"}

\* the MongoClient the operation in progress built
client == last.scope.client

InitDriver ==
    /\ databaseinfra \in Infras
    /\ engineReplSet \in {PyNone, "rs0"}
    /\ cache = EmptyCache
    /\ last = Idle
    /\ previous = NoResolution

GetReplicaName ==
    /\ last = Idle
    /\ \E env \in Envs(ReplStatusOutcomes(engineReplSet), databaseinfra.credentials) :
       \E r \in {get_replica_name(databaseinfra, cache, env)} :
            /\ cache' = r.cache
            /\ last' = [Idle EXCEPT !.op = "get_replica_name", !.raised = r.raised,
                                    !.ret = r.ret, !.gets = r.gets, !.sets = r.sets,
                                    !.lives = r.lives, !.queries = r.queries,
                                    !.scope = r.scope]
            /\ UNCHANGED <<databaseinfra, engineReplSet, previous, otherVars>>

GetConnection ==
    /\ last = Idle
    /\ \E database \in Databases \cup {PyNone},
          env \in Envs(ReplStatusOutcomes(engineReplSet), databaseinfra.credentials) :
       \E g \in {get_connection(databaseinfra, cache, database, env)} :
            /\ cache' = g.resolve.cache
            /\ last' = [Idle EXCEPT !.op = "get_connection", !.database = database,
                                    !.raised = g.raised, !.uri = g.uri,
                                    !.ret = g.resolve.ret,
                                    !.gets = g.resolve.gets, !.sets = g.resolve.sets,
                                    !.lives = g.resolve.lives,
                                    !.queries = g.resolve.queries,
                                    !.scope = g.resolve.scope]
            /\ UNCHANGED <<databaseinfra, engineReplSet, previous, otherVars>>

CheckStatus ==
    /\ last = Idle
    /\ \E instance \in InstanceIds \cup {NoInstance},
          env \in Envs(PingOutcomes, databaseinfra.credentials) :
       \E r \in {check_status(databaseinfra, instance, env)} :
            /\ last' = [Idle EXCEPT !.op = "check_status", !.instance = instance,
                                    !.raised = r.raised, !.probe = env.cmd,
                                    !.scope = r.scope]
            /\ UNCHANGED <<databaseinfra, engineReplSet, cache, previous, otherVars>>

CreateDatabase ==
    /\ last = Idle
    /\ \E database \in Databases,
          env \in Envs(CollectionNamesOutcomes, databaseinfra.credentials) :
       \E r \in {create_database(databaseinfra, database, env)} :
            /\ last' = [Idle EXCEPT !.op = "create_database", !.database = database,
                                    !.raised = r.raised, !.scope = r.scope,
                                    !.acts = IF r.scope.yielded
                                             THEN {Act("collection_names",
                                                       r.scope.handle)}
                                             ELSE {}]
            /\ UNCHANGED <<databaseinfra, engineReplSet, cache, previous, otherVars>>

Info ==
    /\ last = Idle
    /\ \E env \in InfoEnvs(databaseinfra.credentials, Len(databases)) :
       \E r \in {info(databaseinfra, databases, env)} :
            /\ last' = [Idle EXCEPT !.op = "info", !.raised = r.raised,
                                    !.scope = r.scope, !.returned = r.returned,
                                    !.status = r.status, !.answers = env.cmd]
            /\ UNCHANGED <<databaseinfra, engineReplSet, cache, previous, otherVars>>

\* last after management operation op ended as r
AfterManagement(op, credential, database, roles, r) ==
    [Idle EXCEPT !.op = op, !.credential = credential, !.database = database,
                 !.roles = roles, !.raised = r.raised, !.scope = r.scope,
                 !.acts = r.acts, !.usersBefore = engineUsers]

CreateUser ==
    /\ last = Idle
    /\ \E credential \in Credentials, roles \in RoleSets,
          env \in Envs(ManagementOutcomes, databaseinfra.credentials) :
       \E r \in {create_user(databaseinfra, engineUsers, credential, roles, env)} :
            /\ engineUsers' = r.users
            /\ last' = AfterManagement("create_user", credential, PyNone, roles, r)
            /\ UNCHANGED <<databaseinfra, engineReplSet, cache, previous, stepVars,
                           databases, workers, run>>

\* update_user is called when the driver is idle, or again with the same
\* credential right after an update_user that returned normally
UpdateUser ==
    \E credential \in Credentials,
       env \in Envs(ManagementOutcomes, databaseinfra.credentials) :
        /\ \/ last = Idle
           \/ /\ last.op = "update_user" /\ ~Raised(last.raised)
              /\ last.credential = credential
        /\ \E r \in {update_user(databaseinfra, engineUsers, credential, env)} :
            /\ engineUsers' = r.users
            /\ last' = [AfterManagement("update_user", credential, PyNone,
                                        DefaultRoles, r)
                            EXCEPT !.repeat = (last # Idle),
                                   !.usersAtFirst = IF last = Idle THEN EmptyCache
                                                    ELSE IF last.repeat
                                                    THEN last.usersAtFirst
                                                    ELSE last.usersBefore]
            /\ UNCHANGED <<databaseinfra, engineReplSet, cache, previous, stepVars,
                           databases, workers, run>>

RemoveUser ==
    /\ last = Idle
    /\ \E credential \in Credentials,
          env \in Envs(ManagementOutcomes, databaseinfra.credentials) :
       \E r \in {remove_user(databaseinfra, engineUsers, credential, env)} :
            /\ engineUsers' = r.users
            /\ last' = AfterManagement("remove_user", credential, PyNone, {}, r)
            /\ UNCHANGED <<databaseinfra, engineReplSet, cache, previous, stepVars,
                           databases, workers, run>>

RemoveDatabase ==
    /\ last = Idle
    /\ \E database \in Databases, usersGo \in BOOLEAN,
          env \in Envs(ManagementOutcomes, databaseinfra.credentials) :
       \E r \in {remove_database(databaseinfra, engineUsers, database, usersGo,
                                  env)} :
            /\ engineUsers' = r.users
            /\ last' = AfterManagement("remove_database", NoCredential, database,
                                       {}, r)
            /\ UNCHANGED <<databaseinfra, engineReplSet, cache, previous, stepVars,
                           databases, workers, run>>

\* the caller takes the outcome of the operation; the driver is idle again
Return ==
    /\ last # Idle
    /\ last' = Idle
    /\ previous' = IF Resolving(last) THEN Resolution(last) ELSE previous
    /\ UNCHANGED <<databaseinfra, engineReplSet, cache, otherVars>>

\* the external cache service drops an entry
Evict ==
    /\ last = Idle
    /\ \E key \in DOMAIN cache :
        /\ cache' = [k \in DOMAIN cache \ {key} |-> cache[k]]
        /\ previous' = NoResolution
        /\ UNCHANGED <<databaseinfra, engineReplSet, last, otherVars>>

(***************************************************************************)
(* get_replica_name called by concurrent workflow runs: each cache access  *)
(* and each live query is a step of its own. A worker calls for the        *)
(* driver's infra or for another persisted infra, whose engine runs the    *)
(* replica set rs1.                                                        *)
(***************************************************************************)
Workers == 1..MaxWorkers

OtherInfra == [pk |-> 2, replSet |-> "rs1"]

\* the replica set configured in the engine of the infra with this pk
ReplSetOf(pk) == IF pk = OtherInfra.pk THEN OtherInfra.replSet ELSE engineReplSet

\* a worker between calls; in a call, pc is the statement it is at, pk the
\* infra of its driver, repl_name its local, ret and raised its outcome
Resting ==
    [pc |-> "idle", pk |-> 0, repl_name |-> PyNone, ret |-> PyNone,
     raised |-> NoExc, wrote |-> FALSE]

\* get_replica_name is entered: `if not self.databaseinfra.pk`
WorkerCall ==
    \E w \in Workers, pk \in {databaseinfra.pk, OtherInfra.pk} :
        /\ workers[w].pc = "idle"
        /\ workers' = [workers EXCEPT ![w] =
                [Resting EXCEPT !.pk = pk,
                                !.pc = IF pk = 0 THEN "live" ELSE "get"]]
        /\ UNCHANGED <<driverVars, stepVars, manageVars, run>>

\* repl_name = cache.get(key, None); `if not repl_name`
WorkerGet ==
    \E w \in Workers :
        /\ workers[w].pc = "get"
        /\ \E v \in {CacheGet(cache, CacheKey(workers[w].pk), PyNone)} :
            workers' = [workers EXCEPT ![w].repl_name = v,
                                       ![w].ret = IF Truthy(v) THEN v ELSE PyNone,
                                       ![w].pc = IF Truthy(v) THEN "return" ELSE "live"]
        /\ UNCHANGED <<driverVars, stepVars, manageVars, run>>

\* repl_name = self.__get_replica_name(), or `return self.__get_replica_name()`
\* for an infra without pk
WorkerLive ==
    \E w \in Workers :
        /\ workers[w].pc = "live"
        /\ \E env \in Envs(ReplStatusOutcomes(ReplSetOf(workers[w].pk)),
                            databaseinfra.credentials) :
           \E live \in {live_replica_name([databaseinfra EXCEPT !.pk = workers[w].pk],
                                          env)} :
            workers' = [workers EXCEPT
                ![w].repl_name = live.ret,
                ![w].raised = live.raised,
                ![w].ret = IF workers[w].pk = 0 THEN live.ret ELSE PyNone,
                ![w].pc = IF Raised(live.raised) \/ workers[w].pk = 0
                          THEN "return" ELSE "set"]
        /\ UNCHANGED <<driverVars, stepVars, manageVars, run>>

\* cache.set(key, repl_name or ''); return repl_name
WorkerSet ==
    \E w \in Workers :
        /\ workers[w].pc = "set"
        /\ cache' = CacheSet(cache, CacheKey(workers[w].pk),
                             IF Truthy(workers[w].repl_name)
                             THEN workers[w].repl_name ELSE "")
        /\ workers' = [workers EXCEPT ![w].ret = workers[w].repl_name,
                                      ![w].wrote = TRUE,
                                      ![w].pc = "return"]
        /\ UNCHANGED <<databaseinfra, engineReplSet, last, previous, stepVars,
                       manageVars, run>>

\* the caller takes what the call returned or raised
WorkerReturn ==
    \E w \in Workers :
        /\ workers[w].pc = "return"
        /\ workers' = [workers EXCEPT ![w] = Resting]
        /\ UNCHANGED <<driverVars, stepVars, manageVars, run>>

(***************************************************************************)
(* The metadata cutover step, UpdateDbaaSMetadata.                         *)
(***************************************************************************)
DBAAS_0021 == "DBAAS_0021"

Hosts == {"host1", "host2", "host3"}
OldPaths == {"/old1", "/old2"}

\* the export id the storage service gave a path
ExportId(path) == "id:" \o path

HostAttr(host, path, active) ==
    [host |-> host, nfsaas_path |-> path, nfsaas_export_id |-> ExportId(path),
     is_active |-> active]

InputKeys ==
    {"export_path", "new_export_id", "new_export_path", "not_primary_hosts",
     "new_export_id_2", "new_export_path_2"}
ContextKeys == InputKeys \cup {"exceptions"}

\* the indices of the rows of table that satisfy the lookup
RowsByPath(table, path) == {i \in 1..Len(table) : table[i].nfsaas_path = path}
ActiveRowsOfHost(table, host) ==
    {i \in 1..Len(table) : table[i].host = host /\ table[i].is_active}

\* HostAttr.objects.get(...): the error raised when the rows matching are not one
GetError(rows) ==
    IF rows = {} THEN Exc("DoesNotExist", 0)
    ELSE IF Cardinality(rows) > 1 THEN Exc("MultipleObjectsReturned", 0)
    ELSE NoExc

TheRow(rows) == CHOOSE i \in rows : TRUE

\* workflow_dict[key]
KeyError(wd, key) == IF key \in DOMAIN wd THEN NoExc ELSE Exc("KeyError", 0)

\* the first error raised among es, in the order of evaluation
RECURSIVE FirstRaised(_)
FirstRaised(es) ==
    IF Len(es) = 0 THEN NoExc
    ELSE IF Raised(es[1]) THEN es[1] ELSE FirstRaised(Tail(es))

\* obj.save(): the n-th save of the call fails when failAt = n
SaveError(n, failAt) == IF failAt = n THEN Exc("DatabaseError", 0) ELSE NoExc

\* the except clause of do and undo: record the error, return False; a
\* context without the error lists makes the clause itself raise
Record(wd, table, e) ==
    IF "exceptions" \notin DOMAIN wd
    THEN [ret |-> PyNone, raised |-> Exc("KeyError", 0), caught |-> e,
          table |-> table, wd |-> wd]
    ELSE [ret |-> "False", raised |-> NoExc, caught |-> e, table |-> table,
          wd |-> [wd EXCEPT !["exceptions"] =
                     [error_codes |-> Append(@.error_codes, DBAAS_0021),
                      traceback |-> Append(@.traceback, e.cls)]]]

\* the stages of the try block of do; st is [exc, table, row]: the error
\* raised so far, the table, and the index of old_host_attr

\* old_host_attr = HostAttr.objects.get(nfsaas_path=workflow_dict['export_path'])
LookupByPath(table, wd) ==
    IF Raised(KeyError(wd, "export_path"))
    THEN [exc |-> KeyError(wd, "export_path"), table |-> table, row |-> 0]
    ELSE Bind(RowsByPath(table, wd["export_path"]),
              LAMBDA rows : [exc |-> GetError(rows), table |-> table,
                             row |-> IF Raised(GetError(rows)) THEN 0
                                     ELSE TheRow(rows)])

\* host = workflow_dict['not_primary_hosts'][0]
\* old_host_attr = HostAttr.objects.get(host=host, is_active=True)
LookupByHost(st, wd) ==
    IF Raised(st.exc) THEN st
    ELSE IF Raised(KeyError(wd, "not_primary_hosts"))
    THEN [st EXCEPT !.exc = KeyError(wd, "not_primary_hosts")]
    ELSE IF Len(wd["not_primary_hosts"]) = 0
    THEN [st EXCEPT !.exc = Exc("IndexError", 0)]
    ELSE Bind(ActiveRowsOfHost(st.table, wd["not_primary_hosts"][1]),
              LAMBDA rows : [exc |-> GetError(rows), table |-> st.table,
                             row |-> IF Raised(GetError(rows)) THEN st.row
                                     ELSE TheRow(rows)])

\* old_host_attr.is_active = False; old_host_attr.save()   (the n-th save)
Deactivate(st, n, failAt) ==
    IF Raised(st.exc) THEN st
    ELSE IF Raised(SaveError(n, failAt)) THEN [st EXCEPT !.exc = SaveError(n, failAt)]
    ELSE [st EXCEPT !.table[st.row].is_active = FALSE]

\* new_host_attr = HostAttr(); ...; new_host_attr.save()   (the n-th save)
Create(st, wd, idKey, pathKey, n, failAt) ==
    IF Raised(st.exc) THEN st
    ELSE IF Raised(FirstRaised(<<KeyError(wd, idKey), KeyError(wd, pathKey),
                                 SaveError(n, failAt)>>))
    THEN [st EXCEPT !.exc = FirstRaised(<<KeyError(wd, idKey), KeyError(wd, pathKey),
                                          SaveError(n, failAt)>>)]
    ELSE [st EXCEPT !.table = Append(@, [host |-> st.table[st.row].host,
                                         nfsaas_path |-> wd[pathKey],
                                         nfsaas_export_id |-> wd[idKey],
                                         is_active |-> TRUE])]

\* the try block of UpdateDbaaSMetadata.do on the HostAttr table
do_try(table, wd, failAt) ==
    Bind(LookupByPath(table, wd), LAMBDA s1 :
    Bind(Deactivate(s1, 1, failAt), LAMBDA s2 :
    Bind(Create(s2, wd, "new_export_id", "new_export_path", 2, failAt), LAMBDA s3 :
    Bind(LookupByHost(s3, wd), LAMBDA s4 :
    Bind(Deactivate(s4, 3, failAt), LAMBDA s5 :
         Create(s5, wd, "new_export_id_2", "new_export_path_2", 4, failAt))))))

\* the end of do: `return True`, or the except clause
DoEnd(try, wd) ==
    IF IsInstance(try.exc, "Exception")
    THEN Record(wd, try.table, try.exc)
    ELSE [ret |-> "True", raised |-> NoExc, caught |-> NoExc,
          table |-> try.table, wd |-> wd]

\* as DoEnd, with an except clause that catches lookup errors only
DoEndLookupErrors(try, wd) ==
    IF IsInstance(try.exc, "DatabaseError")
    THEN [ret |-> PyNone, raised |-> try.exc, caught |-> NoExc,
          table |-> try.table, wd |-> wd]
    ELSE DoEnd(try, wd)

\* as do, with an except clause that catches lookup errors only
DoCatchingLookupErrors(table, wd, failAt) ==
    Bind(do_try(table, wd, failAt), LAMBDA try : DoEndLookupErrors(try, wd))

\* as do, with the table put back as it was when the try block fails
DoRollingBack(table, wd, failAt) ==
    Bind(do_try(table, wd, failAt),
         LAMBDA try : DoEnd([try EXCEPT !.table = IF Raised(try.exc) THEN table ELSE @],
                            wd))

\* as do, with the old row of the non-primary host left as it is
DoKeepingNonPrimaryRow(table, wd, failAt) ==
    Bind(LookupByPath(table, wd), LAMBDA s1 :
    Bind(Deactivate(s1, 1, failAt), LAMBDA s2 :
    Bind(Create(s2, wd, "new_export_id", "new_export_path", 2, failAt), LAMBDA s3 :
    Bind(LookupByHost(s3, wd), LAMBDA s4 :
    Bind(Create(s4, wd, "new_export_id_2", "new_export_path_2", 4, failAt),
         LAMBDA try : DoEnd(try, wd))))))

\* UpdateDbaaSMetadata.do(workflow_dict): try block, then `except Exception`
do(table, wd, failAt) ==
    Bind(do_try(table, wd, failAt), LAMBDA try : DoEnd(try, wd))

\* as undo, with a try block that reads the context's export_path
UndoReadingContext(table, wd) ==
    IF Raised(KeyError(wd, "export_path"))
    THEN Record(wd, table, KeyError(wd, "export_path"))
    ELSE [ret |-> "True", raised |-> NoExc, caught |-> NoExc, table |-> table,
          wd |-> wd]

\* UpdateDbaaSMetadata.undo(workflow_dict): nothing in its try block can fail
undo(table, wd) ==
    [ret |-> "True", raised |-> NoExc, caught |-> NoExc, table |-> table, wd |-> wd]

(***************************************************************************)
(* The step as a state machine over the HostAttr table and one context.    *)
(***************************************************************************)
Rows == {HostAttr(h, p, a) : h \in Hosts, p \in OldPaths, a \in BOOLEAN}

\* the tables the step may start from; the step looks rows up by their
\* fields, never by their position, so one order of the rows stands for all
Rank(row) ==
    (IF row.host = "host1" THEN 0 ELSE IF row.host = "host2" THEN 4 ELSE 8)
    + (IF row.nfsaas_path = "/old1" THEN 0 ELSE 2)
    + (IF row.is_active THEN 0 ELSE 1)

Tables ==
    {t \in UNION {[1..n -> Rows] : n \in 0..MaxInitRows} :
        \A i \in 1..(Len(t) - 1) : Rank(t[i]) <= Rank(t[i + 1])}

NoErrors == [error_codes |-> <<>>, traceback |-> <<>>]

NotPrimaryHosts == {<<>>, <<"host2">>}

FullContext(path, nph) ==
    [export_path |-> path,
     new_export_id |-> ExportId("/new1"), new_export_path |-> "/new1",
     not_primary_hosts |-> nph,
     new_export_id_2 |-> ExportId("/new2"), new_export_path_2 |-> "/new2",
     exceptions |-> NoErrors]

\* the contexts: complete ones, and one with a key missing, with no input
\* key, or empty
KeySets ==
    {{"exceptions"}, {}} \cup {ContextKeys \ {k} : k \in ContextKeys}

Contexts ==
    {FullContext(path, nph) : path \in OldPaths, nph \in NotPrimaryHosts}
    \cup {[k \in K |-> FullContext("/old1", <<"host2">>)[k]] : K \in KeySets}

\* stepLast: the latest call (op, ret, the error it raised, the error its
\* except clause caught, the save made to fail), the table and the error
\* lists it started from, and whether the call before was a do that returned
\* True, with the table that do started from
StepIdle ==
    [op |-> "none", ret |-> PyNone, raised |-> NoExc, caught |-> NoExc, failAt |-> 0,
     table |-> <<>>, hadLists |-> FALSE, errors |-> NoErrors,
     afterDo |-> FALSE, tableBeforeDo |-> <<>>]

\* what stepLast becomes after call r of op from the current state
Called(op, r, failAt) ==
    [op |-> op, ret |-> r.ret, raised |-> r.raised, caught |-> r.caught,
     failAt |-> failAt, table |-> hostAttrs,
     hadLists |-> "exceptions" \in DOMAIN workflow_dict,
     errors |-> IF "exceptions" \in DOMAIN workflow_dict
                THEN workflow_dict["exceptions"] ELSE NoErrors,
     afterDo |-> stepLast.op = "do" /\ stepLast.ret = "True",
     tableBeforeDo |-> IF stepLast.op = "do" /\ stepLast.ret = "True"
                       THEN stepLast.table ELSE <<>>]

ErrorsWithin(wd) ==
    "exceptions" \in DOMAIN wd => Len(wd["exceptions"].error_codes) <= MaxErrors

InitStep ==
    /\ hostAttrs \in Tables
    /\ workflow_dict \in Contexts
    /\ stepLast = StepIdle

Do ==
    \E failAt \in 0..4 : \E r \in {do(hostAttrs, workflow_dict, failAt)} :
            /\ Len(r.table) <= MaxRows
            /\ ErrorsWithin(r.wd)
            /\ hostAttrs' = r.table
            /\ workflow_dict' = r.wd
            /\ stepLast' = Called("do", r, failAt)
            /\ UNCHANGED <<driverVars, manageVars, workers, run>>

Undo ==
    \E r \in {undo(hostAttrs, workflow_dict)} :
        /\ hostAttrs' = r.table
        /\ workflow_dict' = r.wd
        /\ stepLast' = Called("undo", r, 0)
        /\ UNCHANGED <<driverVars, manageVars, workers, run>>

(***************************************************************************)
(* The workflow orchestrator: a run over n steps that share one context.   *)
(* A step is called through do and undo, which return success or failure;  *)
(* a call that fails appends its entry to the context's error list.        *)
(***************************************************************************)
Call(op, step, ok) == [op |-> op, step |-> step, ok |-> ok]

\* the entry a failing call appends to the context's error list
Entry(call) == <<call.op, call.step>>

Runs ==
    {[n |-> n, pc |-> "forward", at |-> 0, calls |-> <<>>, errors |-> <<>>] :
        n \in 1..MaxSteps}

\* the run after the call of op on the step it is at has returned ok
AfterCall(r, op, ok) ==
    [r EXCEPT !.calls = Append(@, Call(op, r.at, ok)),
              !.errors = IF ok THEN @ ELSE Append(@, Entry(Call(op, r.at, ok)))]

\* as FirstUndone, with the failing step undone too
FirstUndoneIsFailed(i) == i

\* the step the rollback starts with when the do of step i has failed
FirstUndone(i) == i - 1

\* do of the next step; on failure the run turns to the steps before it
RunDo ==
    /\ run.pc = "forward" /\ run.at < run.n
    /\ \E ok \in BOOLEAN :
        run' = [AfterCall(run, "do", ok) EXCEPT
                    !.pc = IF ok THEN "forward" ELSE "rollback",
                    !.at = IF ok THEN run.at + 1 ELSE FirstUndone(run.at)]
    /\ UNCHANGED <<driverVars, stepVars, manageVars, workers>>

\* undo of the next step back; whatever it returns, the rollback goes on
RunUndo ==
    /\ run.pc = "rollback" /\ run.at >= 0
    /\ \E ok \in BOOLEAN :
        run' = [AfterCall(run, "undo", ok) EXCEPT !.at = run.at - 1]
    /\ UNCHANGED <<driverVars, stepVars, manageVars, workers>>

\* the run ends: successful after the last do, failed after the last undo
RunEnd ==
    /\ \/ run.pc = "forward" /\ run.at = run.n
       \/ run.pc = "rollback" /\ run.at < 0
    /\ run' = [run EXCEPT !.pc = IF run.pc = "forward" THEN "succeeded" ELSE "failed"]
    /\ UNCHANGED <<driverVars, stepVars, manageVars, workers>>

(***************************************************************************)
(* Specifications: Spec is the driver of one infra, SpecStep the step.     *)
(***************************************************************************)
\* the parts of the model a specification leaves at rest
NoStep ==
    /\ hostAttrs = <<>>
    /\ workflow_dict = EmptyCache
    /\ stepLast = StepIdle

NoManagement ==
    /\ databases = <<>>
    /\ engineUsers = EmptyCache

Init ==
    /\ InitDriver
    /\ NoStep
    /\ NoManagement
    /\ workers = <<>>
    /\ run = <<>>

Next ==
    \/ GetReplicaName
    \/ GetConnection
    \/ CheckStatus
    \/ CreateDatabase
    \/ Return
    \/ Evict

Spec == Init /\ [][Next]_vars

InitOfStep ==
    /\ InitStep
    /\ databaseinfra = [pk |-> 0, credentials |-> FALSE,
                        instances |-> [i \in InstanceIds |->
                                          [is_arbiter |-> FALSE, is_active |-> TRUE]]]
    /\ engineReplSet = PyNone
    /\ cache = EmptyCache
    /\ last = Idle
    /\ previous = NoResolution
    /\ NoManagement
    /\ workers = <<>>
    /\ run = <<>>

NextStep ==
    \/ Do
    \/ Undo

SpecStep == InitOfStep /\ [][NextStep]_vars

\* the rows of the infra's databases: names are unique within an infra
DatabaseRows ==
    {dbs \in UNION {[1..n -> Databases] : n \in 0..Cardinality(Databases)} :
        \A j, k \in 1..Len(dbs) : j # k => dbs[j] # dbs[k]}

\* SpecInfo: status collection on an infra with any of its databases
InitInfo ==
    /\ databaseinfra \in {infra \in Infras :
            /\ infra.pk = 1
            /\ \A i \in InstanceIds : infra.instances[i]
                   = [is_arbiter |-> FALSE, is_active |-> TRUE]}
    /\ engineReplSet = PyNone
    /\ cache = EmptyCache
    /\ last = Idle
    /\ previous = NoResolution
    /\ NoStep
    /\ databases \in DatabaseRows
    /\ engineUsers = EmptyCache
    /\ workers = <<>>
    /\ run = <<>>

NextInfo ==
    \/ Info
    \/ Return

SpecInfo == InitInfo /\ [][NextInfo]_vars

\* SpecConcurrent: concurrent get_replica_name calls on the shared cache
InitConcurrent ==
    /\ databaseinfra \in {infra \in Infras :
            \A i \in InstanceIds : infra.instances[i]
                = [is_arbiter |-> FALSE, is_active |-> TRUE]}
    /\ engineReplSet \in {PyNone, "rs0"}
    /\ cache = EmptyCache
    /\ last = Idle
    /\ previous = NoResolution
    /\ NoStep
    /\ NoManagement
    /\ workers = [w \in Workers |-> Resting]
    /\ run = <<>>

NextConcurrent ==
    \/ WorkerCall
    \/ WorkerGet
    \/ WorkerLive
    \/ WorkerSet
    \/ WorkerReturn
    \/ Evict

SpecConcurrent == InitConcurrent /\ [][NextConcurrent]_vars

\* SpecRun: one workflow run
InitRun ==
    /\ databaseinfra = [pk |-> 0, credentials |-> FALSE,
                        instances |-> [i \in InstanceIds |->
                                          [is_arbiter |-> FALSE, is_active |-> TRUE]]]
    /\ engineReplSet = PyNone
    /\ cache = EmptyCache
    /\ last = Idle
    /\ previous = NoResolution
    /\ NoStep
    /\ NoManagement
    /\ workers = <<>>
    /\ run \in Runs

NextRun ==
    \/ RunDo
    \/ RunUndo
    \/ RunEnd

SpecRun == InitRun /\ [][NextRun]_vars

\* SpecManage: user and database management, with status collection, on an
\* infra with at most one database of its own
InitManage ==
    /\ databaseinfra \in {infra \in Infras :
            /\ infra.pk = 1
            /\ \A i \in InstanceIds : infra.instances[i]
                   = [is_arbiter |-> FALSE, is_active |-> TRUE]}
    /\ engineReplSet = PyNone
    /\ cache = EmptyCache
    /\ last = Idle
    /\ previous = NoResolution
    /\ NoStep
    /\ databases \in {dbs \in DatabaseRows : Len(dbs) <= 1}
    /\ engineUsers = NoUsers
    /\ workers = <<>>
    /\ run = <<>>

NextManage ==
    \/ CreateUser
    \/ UpdateUser
    \/ RemoveUser
    \/ CreateDatabase
    \/ RemoveDatabase
    \/ Info
    \/ Return

SpecManage == InitManage /\ [][NextManage]_vars

(***************************************************************************)
(* Properties of the driver, checked under Spec.                           *)
(***************************************************************************)
AuthenticationError == Exc("AuthenticationError", 0)
ConnectionError == Exc("ConnectionError", 0)

\* C1: when an operation that entered a pymongo scope has ended and the
\* disconnect, if called, did not fail, the client it built is disconnected
C1_ClientReleasedOnExit ==
    (last.scope.entered /\ client.created /\ ~last.scope.releaseFailed)
        => ~client.connected

\* C2: for a persisted infra, two successive get_replica_name calls that
\* returned, with no eviction in between, issued at most one
\* replSetGetStatus between them
C2_SecondCallFromCache ==
    (/\ databaseinfra.pk # 0
     /\ Resolving(last) /\ ~Raised(last.raised)
     /\ previous.called /\ ~previous.failed)
        => previous.queries + last.queries <= 1

\* C3: a pymongo error that arrives at the except clauses of the scope leaves
\* it as AuthenticationError when it is an OperationFailure with code 18 and
\* as ConnectionError otherwise, no pymongo error leaves the scope, and what
\* leaves the scope is what the operation raises
C3_ScopeTranslates ==
    last.scope.entered =>
        /\ (IsInstance(last.scope.reached, "OperationFailure")
            /\ last.scope.reached.code = AUTH_FAILED)
                => last.scope.out = AuthenticationError
        /\ (IsInstance(last.scope.reached, "PyMongoError")
            /\ ~(IsInstance(last.scope.reached, "OperationFailure")
                 /\ last.scope.reached.code = AUTH_FAILED))
                => last.scope.out = ConnectionError
        /\ ~IsInstance(last.scope.out, "PyMongoError")
        /\ last.raised = last.scope.out

\* the caller's body let an OperationFailure with code 18 through, and the
\* operation ended with AuthenticationError
C3_Witness ==
    /\ last.op = "create_database"
    /\ last.scope.yielded
    /\ last.scope.reached = Exc("OperationFailure", AUTH_FAILED)
    /\ last.raised = AuthenticationError

Affirmative(probe) ==
    /\ ~Raised(probe.exc)
    /\ probe.reply.type = "dict"
    /\ "ok" \in probe.reply.keys
    /\ probe.reply.ok = 1

\* C4: a check_status whose ping was sent returns normally only when the
\* ping answered ok = 1, and fails with ConnectionError otherwise
C4_NonAffirmativeProbeFails ==
    (last.op = "check_status" /\ last.scope.yielded /\ ~Affirmative(last.probe))
        => last.raised = ConnectionError

\* C8: an infra without pk never has anything in the cache, and each of its
\* get_replica_name calls reads and writes no cache entry, resolves live,
\* and sends replSetGetStatus whenever the connection was obtained
C8_TransientNeverCached ==
    databaseinfra.pk = 0 =>
        /\ cache = EmptyCache
        /\ Resolving(last) =>
            /\ last.gets = 0 /\ last.sets = 0
            /\ last.lives = 1 /\ last.scope.entered
            /\ last.scope.yielded => last.queries = 1

\* two successive calls for an infra without pk, each with its live query
C8_Witness ==
    /\ databaseinfra.pk = 0
    /\ last.op = "get_replica_name" /\ last.queries = 1
    /\ previous.called /\ previous.queries = 1

AllHostPorts == {HostPort(i) : i \in InstanceIds}

UsableHostPorts ==
    {HostPort(i) : i \in {j \in InstanceIds :
                            /\ databaseinfra.instances[j].is_active
                            /\ ~databaseinfra.instances[j].is_arbiter}}

\* the hosts an address names, each once
NamesExactly(address, hostPorts) ==
    /\ {address[k] : k \in DOMAIN address} \cap AllHostPorts = hostPorts
    /\ Cardinality({k \in DOMAIN address : address[k] \in AllHostPorts})
           = Cardinality(hostPorts)

\* C9: the address returned by get_connection, and the admin address of a
\* client built for the full topology, name exactly the instances that are
\* active and not arbiters
C9_OnlyUsableInstances ==
    /\ (last.op = "get_connection" /\ ~Raised(last.raised))
           => NamesExactly(last.uri, UsableHostPorts)
    /\ (client.created /\ last.instance = NoInstance)
           => NamesExactly(client.address, UsableHostPorts)

\* get_connection returned for an infra with an instance that is listed and
\* one that is not
C9_Witness ==
    /\ last.op = "get_connection" /\ ~Raised(last.raised)
    /\ client.created
    /\ UsableHostPorts # {}
    /\ UsableHostPorts # AllHostPorts

\* C10: an operation that fails before its scope yields fails with
\* AuthenticationError or ConnectionError, and with AuthenticationError when
\* MongoClient rejected the address with a TypeError
C10_OnlyTaxonomyErrors ==
    (last.scope.entered /\ ~last.scope.yielded) =>
        /\ last.raised \in {AuthenticationError, ConnectionError}
        /\ IsInstance(last.scope.construct, "TypeError")
               => last.raised = AuthenticationError

\* C15: when the disconnect at the end of a scope failed, the operation ends
\* as it would have without the failure: with the error that was pending
\* (AuthenticationError, ConnectionError or the error of the body), or with
\* a normal return when none was; the error of the disconnect is not raised
C15_ReleaseFailureSwallowed ==
    last.scope.releaseFailed =>
        /\ last.raised = last.scope.pending
        /\ ~IsInstance(last.raised, "PyMongoError")
        /\ ~Raised(last.scope.reached) => ~Raised(last.raised)

\* the disconnect failed after the body had failed with bad credentials, and
\* the operation ended with AuthenticationError
C15_Witness ==
    /\ last.scope.releaseFailed
    /\ last.scope.reached = Exc("OperationFailure", AUTH_FAILED)
    /\ last.raised = AuthenticationError

\* the pieces of an address that follow piece
Following(address, piece) ==
    {address[k + 1] : k \in {j \in 1..(Len(address) - 1) : address[j] = piece}}

Occurs(address, piece) == \E k \in DOMAIN address : address[k] = piece

\* C17: the address get_connection returns has the segment "/<database>"
\* exactly when a database was given and the parameter "?replicaSet=<name>"
\* exactly when get_replica_name returned a non-empty name; for an infra
\* without pk whose engine has no replica set it has no such parameter and
\* names exactly the usable instances
C17_AddressSegments ==
    (last.op = "get_connection" /\ ~Raised(last.raised)) =>
        /\ Occurs(last.uri, "/") <=> last.database # PyNone
        /\ last.database # PyNone => Following(last.uri, "/") = {last.database}
        /\ Occurs(last.uri, "?replicaSet=") <=> last.ret \notin {PyNone, ""}
        /\ Occurs(last.uri, "?replicaSet=")
               => Following(last.uri, "?replicaSet=") = {last.ret}
        /\ (databaseinfra.pk = 0 /\ engineReplSet = PyNone)
               => /\ ~Occurs(last.uri, "?replicaSet=")
                  /\ NamesExactly(last.uri, UsableHostPorts)

\* get_connection with a database, for a persisted infra on a replica set
C17_Witness ==
    /\ last.op = "get_connection" /\ ~Raised(last.raised)
    /\ last.database = "app" /\ last.ret = "rs0"
    /\ databaseinfra.pk = 1
    /\ UsableHostPorts # {}

(***************************************************************************)
(* Properties of the cutover step, checked under SpecStep.                 *)
(***************************************************************************)
IsPrefix(s, t) == Len(s) <= Len(t) /\ \A i \in 1..Len(s) : t[i] = s[i]

\* C5: on a context that holds the error lists, do raises nothing; it
\* returns False exactly when something failed inside it, and then the code
\* list has grown by DBAAS_0021 and the traceback list by one entry; when it
\* returns True both lists are as they were
C5_DoNeverRaises ==
    (stepLast.op = "do" /\ stepLast.hadLists) =>
        /\ stepLast.raised = NoExc
        /\ stepLast.ret \in {"True", "False"}
        /\ stepLast.ret = "False" <=> Raised(stepLast.caught)
        /\ stepLast.ret = "False" =>
            /\ workflow_dict["exceptions"].error_codes
                   = Append(stepLast.errors.error_codes, DBAAS_0021)
            /\ Len(workflow_dict["exceptions"].traceback)
                   = Len(stepLast.errors.traceback) + 1
            /\ IsPrefix(stepLast.errors.traceback,
                        workflow_dict["exceptions"].traceback)
        /\ stepLast.ret = "True" => workflow_dict["exceptions"] = stepLast.errors

\* do failed at its third save, after an earlier failure was recorded
C5_Witness ==
    /\ stepLast.op = "do" /\ stepLast.hadLists
    /\ stepLast.failAt = 3 /\ stepLast.caught = Exc("DatabaseError", 0)
    /\ stepLast.ret = "False"
    /\ Len(workflow_dict["exceptions"].error_codes) = 2

\* the state a cutover starts from: every host has one active row, the
\* context's export_path is the path of an active row (the primary's), and
\* the first of not_primary_hosts is another host
CutoverReady(table, wd) ==
    /\ InputKeys \subseteq DOMAIN wd
    /\ \A h \in Hosts : Cardinality(ActiveRowsOfHost(table, h)) = 1
    /\ Cardinality(RowsByPath(table, wd["export_path"])) = 1
    /\ \A i \in RowsByPath(table, wd["export_path"]) :
           /\ table[i].is_active
           /\ Len(wd["not_primary_hosts"]) > 0
           /\ wd["not_primary_hosts"][1] # table[i].host

\* C6: after a do that returned True from such a state and the undo that
\* follows it, the rows that were there before do are as they were and no
\* row created by do is active
C6_UndoInvertsDo ==
    (/\ stepLast.op = "undo" /\ stepLast.afterDo
     /\ CutoverReady(stepLast.tableBeforeDo, workflow_dict)) =>
        /\ Len(hostAttrs) >= Len(stepLast.tableBeforeDo)
        /\ \A i \in 1..Len(hostAttrs) :
               IF i <= Len(stepLast.tableBeforeDo)
               THEN hostAttrs[i] = stepLast.tableBeforeDo[i]
               ELSE ~hostAttrs[i].is_active

\* C7: undo raises nothing, returns True and leaves the error lists as they
\* were, whatever the table and the context
C7_UndoSafe ==
    stepLast.op = "undo" =>
        /\ stepLast.raised = NoExc
        /\ stepLast.ret = "True"
        /\ ("exceptions" \in DOMAIN workflow_dict) = stepLast.hadLists
        /\ stepLast.hadLists => workflow_dict["exceptions"] = stepLast.errors

\* undo ran on a context that lacks an input key, after a do that failed
C7_Witness ==
    /\ stepLast.op = "undo"
    /\ "export_path" \notin DOMAIN workflow_dict
    /\ stepLast.hadLists
    /\ Len(stepLast.errors.error_codes) > 0

\* the row with the context's export_path, and the active row of the first
\* of not_primary_hosts
PrimaryRow(table, wd) ==
    CHOOSE i \in RowsByPath(table, wd["export_path"]) : TRUE

NonPrimaryRow(table, wd) ==
    CHOOSE i \in ActiveRowsOfHost(table, wd["not_primary_hosts"][1]) : TRUE

Inactive(table, i) == [table EXCEPT ![i].is_active = FALSE]

NewRow(host, id, path) ==
    [host |-> host, nfsaas_path |-> path, nfsaas_export_id |-> id, is_active |-> TRUE]

\* the table once the first k of the four saves of a cutover are applied
AfterSaves(table, wd, k) ==
    LET p == PrimaryRow(table, wd)
        q == NonPrimaryRow(table, wd)
        t1 == Inactive(table, p)
        t2 == Append(t1, NewRow(table[p].host, wd["new_export_id"],
                                wd["new_export_path"]))
        t3 == Inactive(t2, q)
        t4 == Append(t3, NewRow(table[q].host, wd["new_export_id_2"],
                                wd["new_export_path_2"]))
    IN  CASE k = 0 -> table
          [] k = 1 -> t1
          [] k = 2 -> t2
          [] k = 3 -> t3
          [] OTHER -> t4

\* the state in which the first half of a cutover can be done
PrimaryReady(table, wd) ==
    /\ InputKeys \subseteq DOMAIN wd
    /\ Cardinality(RowsByPath(table, wd["export_path"])) = 1

\* C19: a do that returned False after its k-th save failed leaves the
\* k - 1 saves before it applied, in the order deactivate primary, create
\* primary, deactivate non-primary, create non-primary: failed at the second
\* or fourth save it leaves a host without active row, failed at the third
\* save or at the lookup of the non-primary host it leaves the primary cut
\* over and the non-primary not
C19_NoRollback ==
    (stepLast.op = "do" /\ stepLast.ret = "False") =>
        /\ (/\ CutoverReady(stepLast.table, workflow_dict)
            /\ stepLast.failAt \in 1..4) =>
                /\ stepLast.caught = Exc("DatabaseError", 0)
                /\ hostAttrs = AfterSaves(stepLast.table, workflow_dict,
                                          stepLast.failAt - 1)
                /\ stepLast.failAt = 2 =>
                       ActiveRowsOfHost(hostAttrs,
                           stepLast.table[PrimaryRow(stepLast.table,
                                                     workflow_dict)].host) = {}
                /\ stepLast.failAt = 4 =>
                       ActiveRowsOfHost(hostAttrs,
                           workflow_dict["not_primary_hosts"][1]) = {}
                /\ stepLast.failAt \in {3, 4} =>
                       \E i \in 1..Len(hostAttrs) :
                           /\ i > Len(stepLast.table)
                           /\ hostAttrs[i].is_active
                           /\ hostAttrs[i].nfsaas_path
                                  = workflow_dict["new_export_path"]
        /\ (/\ PrimaryReady(stepLast.table, workflow_dict)
            /\ stepLast.caught = Exc("IndexError", 0)) =>
                hostAttrs = AfterSaves(stepLast.table, workflow_dict, 2)

\* do failed at its fourth save on a table ready for the cutover: the
\* non-primary host is left without active row
C19_Witness ==
    /\ stepLast.op = "do" /\ stepLast.ret = "False"
    /\ CutoverReady(stepLast.table, workflow_dict)
    /\ stepLast.failAt = 4
    /\ Len(hostAttrs) = Len(stepLast.table) + 1
    /\ ActiveRowsOfHost(hostAttrs, workflow_dict["not_primary_hosts"][1]) = {}

\* the state the claim starts from: every host has exactly one active row,
\* export_path is the path of the active row of a host (the primary), and
\* the first of not_primary_hosts is another host
CutoverStart(table, wd) ==
    /\ InputKeys \subseteq DOMAIN wd
    /\ \A h \in Hosts : Cardinality(ActiveRowsOfHost(table, h)) = 1
    /\ Len(wd["not_primary_hosts"]) > 0
    /\ \E i \in 1..Len(table) :
           /\ table[i].is_active
           /\ table[i].nfsaas_path = wd["export_path"]
           /\ table[i].host # wd["not_primary_hosts"][1]

\* host has exactly one active row in table, and it carries id and path
OneActiveRow(table, host, id, path) ==
    /\ Cardinality(ActiveRowsOfHost(table, host)) = 1
    /\ \A i \in ActiveRowsOfHost(table, host) :
           table[i].nfsaas_export_id = id /\ table[i].nfsaas_path = path

\* C20: after a do that returned True from such a state, the primary host
\* and the non-primary host have exactly one active row each, carrying the
\* new export id and path the context gives for that host; their rows that
\* were active are inactive and otherwise as they were; every other row is
\* as it was, and two rows were added
C20_CutoverInvariant ==
    (/\ stepLast.op = "do" /\ stepLast.ret = "True"
     /\ CutoverStart(stepLast.table, workflow_dict)) =>
        LET before == stepLast.table
            p == PrimaryRow(before, workflow_dict)
            q == NonPrimaryRow(before, workflow_dict)
        IN  /\ before[p].is_active /\ before[q].is_active
            /\ before[p].host # before[q].host
            /\ OneActiveRow(hostAttrs, before[p].host,
                            workflow_dict["new_export_id"],
                            workflow_dict["new_export_path"])
            /\ OneActiveRow(hostAttrs, before[q].host,
                            workflow_dict["new_export_id_2"],
                            workflow_dict["new_export_path_2"])
            /\ Len(hostAttrs) = Len(before) + 2
            /\ \A i \in 1..Len(before) :
                   hostAttrs[i] = IF i \in {p, q}
                                  THEN [before[i] EXCEPT !.is_active = FALSE]
                                  ELSE before[i]

\* a cutover of host1 and host2 that returned True, on a table that also
\* holds the active row of a third host
C20_Witness ==
    /\ stepLast.op = "do" /\ stepLast.ret = "True"
    /\ CutoverStart(stepLast.table, workflow_dict)
    /\ Len(stepLast.table) = 3
    /\ \E i \in 1..3 : hostAttrs[i].host = "host3" /\ hostAttrs[i].is_active
    /\ Cardinality(ActiveRowsOfHost(hostAttrs, "host1")) = 1
    /\ Cardinality(ActiveRowsOfHost(hostAttrs, "host2")) = 1

(***************************************************************************)
(* Properties of info(), checked under SpecInfo.                           *)
(***************************************************************************)
\* some query of the info() in progress failed
QueryFailed ==
    \/ Raised(last.answers.server_info.exc)
    \/ Raised(last.answers.listDatabases.exc)
    \/ \E k \in DOMAIN last.answers.dbStats : Raised(last.answers.dbStats[k].exc)

\* C11: an info() of which a query failed, whichever it was, ends with an
\* error and returns no status object; an info() that ends with an error
\* returns none; a status object is returned only when the queries were made
\* and none failed, and it has an entry for each database of the infra
C11_InfoFailsClosed ==
    last.op = "info" =>
        /\ QueryFailed => (Raised(last.raised) /\ ~last.returned)
        /\ Raised(last.raised) => (~last.returned /\ last.status = NoStatus)
        /\ last.returned =>
            /\ last.scope.yielded /\ ~QueryFailed
            /\ DOMAIN last.status.databases_status
                   = {databases[k] : k \in DOMAIN databases}

\* the dbStats of the second database failed after the first had answered
C11_Witness ==
    /\ last.op = "info" /\ Len(databases) = 2
    /\ ~Raised(last.answers.dbStats[1].exc)
    /\ "dataSize" \in DOMAIN last.answers.dbStats[1].reply
    /\ last.answers.dbStats[2].exc = Exc("ConnectionFailure", 0)
    /\ last.raised = ConnectionError
    /\ ~last.returned

\* the number an answer reports for key, 0 when the key is absent or null
Reported(reply, key) ==
    IF key \in DOMAIN reply /\ ~reply[key].null THEN reply[key].n ELSE 0

\* C12: the status object info() returns has the version the engine
\* reported, the totalSize it reported (0 when absent) as used size, and for
\* the k-th database of the infra used size = dataSize + indexSize and total
\* size = fileSize of the k-th dbStats answer, absent and null counting as 0;
\* dataSize 100, indexSize 20, fileSize 150 give used 120 and total 150
C12_InfoValues ==
    (last.op = "info" /\ last.returned) =>
        /\ last.status.version
               = (IF "version" \in DOMAIN last.answers.server_info.reply
                  THEN last.answers.server_info.reply["version"] ELSE PyNone)
        /\ last.status.used_size_in_bytes
               = (IF "totalSize" \in DOMAIN last.answers.listDatabases.reply
                  THEN last.answers.listDatabases.reply["totalSize"] ELSE Num(0))
        /\ \A k \in DOMAIN databases :
               /\ last.status.databases_status[databases[k]].used_size_in_bytes
                      = Reported(last.answers.dbStats[k].reply, "dataSize")
                        + Reported(last.answers.dbStats[k].reply, "indexSize")
               /\ last.status.databases_status[databases[k]].total_size_in_bytes
                      = Reported(last.answers.dbStats[k].reply, "fileSize")
               /\ last.answers.dbStats[k].reply
                      = [dataSize |-> Num(100), indexSize |-> Num(20),
                         fileSize |-> Num(150)]
                  => last.status.databases_status[databases[k]]
                         = [used_size_in_bytes |-> 120, total_size_in_bytes |-> 150]

\* version "4.0", total size 1000, database app with dataSize 100, indexSize
\* 20 and fileSize 150, and database web with a null dataSize and no fileSize
C12_Witness ==
    /\ last.op = "info" /\ last.returned
    /\ databases = <<"app", "web">>
    /\ last.status.version = "4.0"
    /\ last.status.used_size_in_bytes = Num(1000)
    /\ last.status.databases_status["app"]
           = [used_size_in_bytes |-> 120, total_size_in_bytes |-> 150]
    /\ last.answers.dbStats[2].reply = [dataSize |-> Null, indexSize |-> Num(20)]
    /\ last.status.databases_status["web"]
           = [used_size_in_bytes |-> 20, total_size_in_bytes |-> 0]

(***************************************************************************)
(* Properties of user and database management, checked under SpecManage.   *)
(***************************************************************************)
\* C13: an update_user that follows at once an update_user with the same
\* credential that returned normally leaves the engine's users as the first
\* left them, the stored password and roles of the credential's user
\* included, whatever that user was before the first
C13_UpdateUserIdempotent ==
    (last.op = "update_user" /\ last.repeat) =>
        /\ engineUsers = last.usersBefore
        /\ engineUsers[last.credential.database].password
               = last.usersBefore[last.credential.database].password
        /\ engineUsers[last.credential.database].roles
               = last.usersBefore[last.credential.database].roles
        /\ engineUsers[last.credential.database].present

\* a second update_user that returned normally, for a user that had another
\* password and other roles before the first
C13_Witness ==
    /\ last.op = "update_user" /\ last.repeat /\ ~Raised(last.raised)
    /\ last.credential = [user |-> "u", password |-> "p1", database |-> "app"]
    /\ last.usersAtFirst["app"] = User("p2", {"read"})
    /\ engineUsers["app"] = User("p1", DefaultRoles)

LiveToken(pk) == ReplSetOf(pk)

\* C16: whatever the interleaving, the entry of a persisted infra's key
\* holds the value every write for that infra stores, the name of its
\* replica set or '' when it has none; a call that returns, returns what a
\* live query for its own infra finds, never the name of another infra's
\* replica set; a call for an infra without pk writes nothing
C16_CacheSafeUnderRaces ==
    /\ \A pk \in {1, OtherInfra.pk} :
           CacheKey(pk) \in DOMAIN cache =>
               cache[CacheKey(pk)]
                   = (IF LiveToken(pk) = PyNone THEN "" ELSE LiveToken(pk))
    /\ DOMAIN cache \subseteq {CacheKey(1), CacheKey(OtherInfra.pk)}
    /\ \A w \in Workers :
           (workers[w].pc = "return" /\ ~Raised(workers[w].raised)) =>
               /\ workers[w].ret = LiveToken(workers[w].pk)
               /\ \A pk \in {databaseinfra.pk, OtherInfra.pk} \ {workers[w].pk} :
                      workers[w].ret # PyNone => workers[w].ret # LiveToken(pk)
               /\ workers[w].pk = 0 => ~workers[w].wrote

\* two calls for the same persisted infra that both missed the cache, both
\* queried and both wrote the entry
C16_Witness ==
    /\ databaseinfra.pk = 1
    /\ \A w \in {1, 2} :
           /\ workers[w].pk = 1 /\ workers[w].pc = "return"
           /\ workers[w].wrote /\ workers[w].ret = "rs0"
    /\ cache[CacheKey(1)] = "rs0"

(***************************************************************************)
(* Properties of the workflow run, checked under SpecRun.                  *)
(***************************************************************************)
\* the entries of the calls that failed, in the order of the calls
RECURSIVE FailedEntries(_)
FailedEntries(calls) ==
    IF Len(calls) = 0 THEN <<>>
    ELSE (IF calls[1].ok THEN <<>> ELSE <<Entry(calls[1])>>)
         \o FailedEntries(Tail(calls))

FailedDos == {k \in DOMAIN run.calls : run.calls[k].op = "do" /\ ~run.calls[k].ok}

\* C18: the calls of a run are the do of steps 0, 1, ... in order up to the
\* first that fails, step i, followed by the undo of steps i - 1, ..., 0 in
\* that order: never a do after the failing one, never the undo of step i;
\* the error list holds the entry of the failing do followed by those of the
\* failing undos, in call order; the run ends failed once step 0 is undone;
\* a run without failing do calls no undo, keeps the list empty and ends
\* successful after the do of its last step
C18_RollbackInReverse ==
    /\ run.errors = FailedEntries(run.calls)
    /\ Cardinality(FailedDos) <= 1
    /\ FailedDos = {} =>
        /\ \A k \in DOMAIN run.calls :
               run.calls[k].op = "do" /\ run.calls[k].step = k - 1
        /\ run.errors = <<>>
        /\ run.pc \in {"forward", "succeeded"}
        /\ run.pc = "succeeded" => Len(run.calls) = run.n
    /\ \A f \in FailedDos :
        /\ \A k \in 1..f : run.calls[k].op = "do" /\ run.calls[k].step = k - 1
        /\ \A k \in (f + 1)..Len(run.calls) :
               /\ run.calls[k].op = "undo"
               /\ run.calls[k].step = (f - 1) - (k - f)
               /\ run.calls[k].step >= 0
        /\ run.errors[1] = <<"do", f - 1>>
        /\ run.pc \in {"rollback", "failed"}
        /\ run.pc = "failed" => Len(run.calls) = f + (f - 1)

\* a run over three steps: the do of the second failed, the undo of the
\* first recorded an error of its own, and the run ended failed
C18_Witness ==
    /\ run.n = 3 /\ run.pc = "failed"
    /\ run.calls = <<Call("do", 0, TRUE), Call("do", 1, FALSE),
                     Call("undo", 0, FALSE)>>
    /\ run.errors = <<<<"do", 1>>, <<"undo", 0>>>>

====
